---- MODULE Spec2Model ----
(***************************************************************************)
(* Model of the real-time match engine of src/socket/socketHandler.js:     *)
(* the process-local registry gameRooms, the Room objects it refers to,    *)
(* the socket event handlers, the timer callbacks and the asynchronous     *)
(* endMatch / join-match continuations that are suspended on store calls.  *)
(* Every await of the source is a yield point: the store operation and the *)
(* code up to the next await form one step.                                *)
(***************************************************************************)
EXTENDS Integers, Sequences, FiniteSets, TLC

VARIABLES
  gameRooms,   \* registry: key (match id or join code) -> Room object or NoRoom
  rooms,       \* the Room objects themselves (they outlive their registry keys)
  sockets,     \* per user: the current connection (generation, status, socket.matchId)
  timers,      \* armed setTimeout callbacks that have not fired nor been cleared
  joins,       \* join-match handlers suspended on a store call
  ends,        \* endMatch invocations suspended on a store call
  matchDoc,    \* persisted Match documents
  userXp,      \* persisted User.xp
  reply,       \* error code emitted by the last step ("ok" when none)
  matchEnded,  \* per match: the match-ended broadcasts, in order
  log,         \* per match: the broadcasts to the match's players, in order
  bonusLog,    \* per match and user: number of times the forfeit bonus was added
  xpSaves,     \* per match and user: number of profile saves that added a score > 0
  used,        \* per kind of client event: how many more the clients send
  running      \* the server process runs (FALSE after process.exit)

vars == <<gameRooms, rooms, sockets, timers, joins, ends, matchDoc, userXp,
          reply, matchEnded, log, bonusLog, xpSaves, used, running>>

-----------------------------------------------------------------------------
(* Bounds of the model *)
MaxJoin == 2         \* join-match events of the join scenarios
MaxForfeit == 2      \* forfeit-match events of the finalize scenarios
MaxFinish == 2       \* finish-quiz events of the finalize scenarios
MaxSubmit == 2       \* submit-answer events of the play scenarios
MaxNext == 3         \* next-question events of the advance scenarios
MaxDisconnect == 2   \* disconnect events of the reconnection scenarios
MaxCreate == 2       \* create-match events of the lobby scenario
MaxRepeat == 4       \* submit-answer events of the repetition scenario
MaxFail == 1         \* store operations that fail in the failure scenario

(* Program constants *)
XP_PER_CORRECT == 10
FORFEIT_BONUS == 50
MIN_QUESTIONS == 3
MAX_QUESTIONS == 20
QUESTIONS_PER_MATCH == 5
QUESTION_TIME_LIMIT == 30
MIN_TIME_LIMIT == 15
MAX_TIME_LIMIT == 300
CODE_LENGTH == 12
MIN_PREFIX_LENGTH == 8

Users == {"u1", "u2", "u3"}
Creator == "u1"      \* the user who sends create-match
NoRoom == "none"
NoUser == "none"
NoDoc == [state |-> "none"]
NoSocket == <<NoUser, 0>>
NoTimer == [kind |-> "none", matchId |-> NoRoom, questionIndex |-> 0,
            userId |-> NoUser, socketId |-> NoSocket, n |-> 0]

(* match._id.toString() is an ObjectId in hexadecimal: the second of        *)
(* creation (8 characters), a value fixed for the process (10 characters),  *)
(* a counter (6 characters). The ids Match.create hands out, in this order: *)
(* those of two matches created in the same second                          *)
IdOrder == << "65f00001" \o "abcdef0123" \o "000001",
              "65f00001" \o "abcdef0123" \o "000002" >>
MatchIds == {IdOrder[i] : i \in 1..Len(IdOrder)}

(* String.prototype.toUpperCase, substring(0, n), startsWith *)
UpperChar(c) ==
  CASE c = "a" -> "A" [] c = "b" -> "B" [] c = "c" -> "C" [] c = "d" -> "D"
    [] c = "e" -> "E" [] c = "f" -> "F" [] c = "z" -> "Z" [] OTHER -> c
RECURSIVE ToUpperCase(_)
ToUpperCase(k) ==
  IF Len(k) = 0 THEN ""
  ELSE UpperChar(SubSeq(k, 1, 1)) \o ToUpperCase(SubSeq(k, 2, Len(k)))
Substring0(k, n) == SubSeq(k, 1, IF Len(k) < n THEN Len(k) ELSE n)
StartsWith(key, codeUpper) ==
  Len(codeUpper) <= Len(key) /\ SubSeq(key, 1, Len(codeUpper)) = codeUpper

(* matchId.substring(0, 12).toUpperCase() *)
MatchCode(m) == ToUpperCase(Substring0(m, CODE_LENGTH))
Codes == {MatchCode(m) : m \in MatchIds}
Keys == MatchIds \cup Codes
(* the keys of gameRooms in the order of their first insertion *)
KeyOrder ==
  << IdOrder[1], MatchCode(IdOrder[1]), IdOrder[2] >>

(* the option ids the clients select *)
Options == {1, 2}
(* the question indexes clients send: those of a short match and one beyond *)
Indexes == 0..MIN_QUESTIONS
(* questionsData[i]: the ids of its four options and its correctOptionId.    *)
(* The fourth question has two options of id 1, and 4 as correctOptionId     *)
(* (each id is in 1..4, as the validation of questions requires)             *)
OptionIds(i) == IF i = 3 THEN {1, 2, 3} ELSE {1, 2, 3, 4}
CorrectOptionId(i) == IF i = 3 THEN 4 ELSE IF i % 2 = 0 THEN 1 ELSE 2
(* question.options.find((opt) => opt.id === question.correctOptionId) finds *)
(* an option                                                                 *)
Matched(i) == CorrectOptionId(i) \in OptionIds(i)

-----------------------------------------------------------------------------
(* Room.scores is a JS object: entries are kept in insertion order *)
HasScore(sc, u) == \E i \in 1..Len(sc) : sc[i].userId = u
ScoreOf(sc, u) ==
  IF HasScore(sc, u) THEN sc[CHOOSE i \in 1..Len(sc) : sc[i].userId = u].score
  ELSE 0

ScoreOfEntry(sc, u) == LET i == CHOOSE k \in 1..Len(sc) : sc[k].userId = u IN sc[i].score

(* a score table in which every addition counts twice *)
AddScoreTwice(sc, u, x) ==
  IF HasScore(sc, u)
  THEN [i \in 1..Len(sc) |-> IF sc[i].userId = u
                              THEN [sc[i] EXCEPT !.score = @ + x + x] ELSE sc[i]]
  ELSE Append(sc, [userId |-> u, score |-> x + x])

AddScore(sc, u, x) ==
  IF HasScore(sc, u)
  THEN [i \in 1..Len(sc) |-> IF sc[i].userId = u
                              THEN [sc[i] EXCEPT !.score = @ + x] ELSE sc[i]]
  ELSE Append(sc, [userId |-> u, score |-> x])

(* Array.prototype.sort((a, b) => b.score - a.score): stable, descending *)
RECURSIVE InsertDesc(_, _)
InsertDesc(e, s) ==
  IF s = <<>> THEN <<e>>
  ELSE IF e.score > Head(s).score THEN <<e>> \o s
       ELSE <<Head(s)>> \o InsertDesc(e, Tail(s))

RECURSIVE SortDesc(_)
SortDesc(s) ==
  IF s = <<>> THEN <<>>
  ELSE LET n == Len(s) IN InsertDesc(s[n], SortDesc(SubSeq(s, 1, n - 1)))

(* room.players.find(pred): first match in array order, or NoUser *)
PlayerIdx(ps, u) ==
  IF \E i \in 1..Len(ps) : ps[i].userId = u
  THEN CHOOSE i \in 1..Len(ps) : ps[i].userId = u /\ \A k \in 1..(i-1) : ps[k].userId # u
  ELSE 0

NewPlayer(u, sid) ==
  [userId |-> u, socketId |-> sid, answered |-> FALSE,
   disconnected |-> FALSE, finishReady |-> FALSE]

SocketId(u) == <<u, sockets[u].gen>>
IsOpen(u) == sockets[u].status = "open"

-----------------------------------------------------------------------------
(* The clients' events of a run: each scenario bounds how many events of     *)
(* each kind are sent; who sends them, with what payload and in what order   *)
(* relative to timers and store answers is free                              *)
Quiet == [create |-> 1, join |-> 0, submit |-> 0, finish |-> 0, next |-> 0,
          forfeit |-> 0, disconnect |-> 0, connect |-> 0, reconnect |-> 0,
          fail |-> 0]
Scenarios ==
  { [Quiet EXCEPT !.join = MaxJoin, !.forfeit = 1],
    [Quiet EXCEPT !.join = 1, !.forfeit = MaxForfeit],
    [Quiet EXCEPT !.join = 1, !.finish = MaxFinish, !.submit = 1],
    [Quiet EXCEPT !.join = 1, !.submit = MaxSubmit],
    [Quiet EXCEPT !.join = 1, !.next = MaxNext, !.submit = 1],
    [Quiet EXCEPT !.join = 1, !.disconnect = MaxDisconnect, !.connect = 1,
                  !.reconnect = 1],
    [Quiet EXCEPT !.join = 1, !.disconnect = 1, !.forfeit = 1],
    [Quiet EXCEPT !.join = 1, !.next = 1, !.forfeit = 1],
    [Quiet EXCEPT !.create = MaxCreate, !.join = 1],
    [Quiet EXCEPT !.join = 1, !.submit = 1, !.forfeit = 1, !.fail = MaxFail] }

(* the scenarios of the liveness checks: disconnections with reconnection or *)
(* forfeit, and one event of each kind of play                              *)
FairScenarios ==
  { [Quiet EXCEPT !.join = 1, !.disconnect = MaxDisconnect, !.connect = 1,
                  !.reconnect = 1],
    [Quiet EXCEPT !.join = 1, !.disconnect = 1, !.forfeit = 1],
    [Quiet EXCEPT !.join = 1, !.submit = 1, !.finish = 1, !.next = 1],
    [Quiet EXCEPT !.next = MaxNext] }

(* the server after start, before any match: S is the set of scenarios *)
Start(S) ==
  /\ gameRooms = [k \in Keys |-> NoRoom]
  /\ rooms = [m \in MatchIds |-> NoDoc]
  /\ sockets = [u \in Users |-> [gen |-> 1, status |-> "open", matchId |-> NoRoom]]
  /\ timers = {}
  /\ joins = {}
  /\ ends = {}
  /\ matchDoc = [m \in MatchIds |-> NoDoc]
  /\ userXp = [u \in Users |-> 0]
  /\ reply = "ok"
  /\ matchEnded = [m \in MatchIds |-> <<>>]
  /\ log = [m \in MatchIds |-> <<>>]
  /\ bonusLog = [m \in MatchIds |-> [u \in Users |-> 0]]
  /\ xpSaves = [m \in MatchIds |-> [u \in Users |-> 0]]
  /\ used \in S
  /\ running = TRUE

Init == Start(Scenarios)
FairInit == Start(FairScenarios)

(* io.to(matchId).emit(ev, {questionIndex}): the broadcasts l, extended *)
Emit(l, m, ev, questionIndex) ==
  [l EXCEPT ![m] = Append(@, [ev |-> ev, questionIndex |-> questionIndex])]

-----------------------------------------------------------------------------
(* setTimeout: the armed callbacks form a multiset; copies of one callback  *)
(* are told apart by n                                                      *)
Timer(kind, m, questionIndex, userId, socketId) ==
  LET same == {t \in timers : /\ t.kind = kind /\ t.matchId = m
                              /\ t.questionIndex = questionIndex
                              /\ t.userId = userId /\ t.socketId = socketId}
      n == CHOOSE k \in 1..(Cardinality(same) + 1) :
             /\ \A t \in same : t.n # k
             /\ \A j \in 1..(k - 1) : \E t \in same : t.n = j
  IN [kind |-> kind, matchId |-> m, questionIndex |-> questionIndex,
      userId |-> userId, socketId |-> socketId, n |-> n]

Budget(k) == used[k] > 0
Spend(k) == used' = [used EXCEPT ![k] = @ - 1]

LogVars == <<matchEnded, log, bonusLog, xpSaves>>
StoreVars == <<matchDoc, userXp>>

-----------------------------------------------------------------------------
(* io.on("connection") followed by the client's user-join: a user opens a  *)
(* new connection, whose socket.userId is bound to the user                 *)
Connect(u) ==
  /\ running /\ UNCHANGED running
  /\ sockets[u].status = "closed"
  /\ Budget("connect")
  /\ Spend("connect")
  /\ sockets' = [sockets EXCEPT ![u] = [gen |-> @.gen + 1, status |-> "open",
                                        matchId |-> NoRoom]]
  /\ reply' = "ok"
  /\ UNCHANGED <<gameRooms, rooms, timers, joins, ends, LogVars, StoreVars>>

(* create-match: validation, Match.create, registration under id and code *)
(* a || b of JavaScript on numbers: b when a is 0 *)
OrDefault(a, b) == IF a = 0 THEN b ELSE a

(* the requests the creator sends: numberOfQuestions and timePerQuestion,   *)
(* 0 standing for the falsy values (0, or the field left out)               *)
CreateInputs ==
  { <<MIN_QUESTIONS, MIN_TIME_LIMIT>>, <<MIN_QUESTIONS - 1, MIN_TIME_LIMIT>>,
    <<MIN_QUESTIONS, MIN_TIME_LIMIT - 1>>, <<0, 0>> }

(* match._id of the next Match.create: the first id not handed out yet *)
NextId ==
  IdOrder[CHOOSE i \in 1..Len(IdOrder) :
             /\ matchDoc[IdOrder[i]] = NoDoc
             /\ \A k \in 1..(i - 1) : matchDoc[IdOrder[k]] # NoDoc]

CreateMatch(u, m, numberOfQuestions, timePerQuestion) ==
  LET questionsCount == OrDefault(numberOfQuestions, QUESTIONS_PER_MATCH)
      questionTimeLimit == OrDefault(timePerQuestion, QUESTION_TIME_LIMIT)
  IN
  /\ running /\ UNCHANGED running
  /\ IsOpen(u)
  /\ Budget("create")
  /\ Spend("create")
  /\ matchDoc[m] = NoDoc
  /\ m = NextId
  /\ IF questionsCount < MIN_QUESTIONS \/ questionsCount > MAX_QUESTIONS
     THEN /\ reply' = "INVALID_QUESTION_COUNT"
          /\ UNCHANGED <<gameRooms, rooms, sockets, matchDoc>>
     ELSE IF questionTimeLimit < MIN_TIME_LIMIT \/ questionTimeLimit > MAX_TIME_LIMIT
     THEN /\ reply' = "INVALID_TIME_LIMIT"
          /\ UNCHANGED <<gameRooms, rooms, sockets, matchDoc>>
     ELSE /\ matchDoc' = [matchDoc EXCEPT ![m] =
                 [state |-> "waiting", players |-> <<u>>,
                  scores |-> <<[userId |-> u, score |-> 0]>>]]
          /\ rooms' = [rooms EXCEPT ![m] =
                 [matchId |-> m, matchCode |-> MatchCode(m),
                  numberOfQuestions |-> questionsCount,
                  questionTimeLimit |-> questionTimeLimit,
                  players |-> <<NewPlayer(u, SocketId(u))>>,
                  currentQuestionIndex |-> 0,
                  scores |-> <<[userId |-> u, score |-> 0]>>,
                  state |-> "waiting",
                  timerInterval |-> NoTimer,
                  gracePeriodTimeout |-> NoTimer]]
          /\ gameRooms' = [gameRooms EXCEPT ![m] = m, ![MatchCode(m)] = m]
          /\ sockets' = [sockets EXCEPT ![u].matchId = m]
          /\ reply' = "ok"
  /\ UNCHANGED <<timers, joins, ends, userXp, LogVars>>

(* join-match, the lookup chain: the Room found (its match id), or NoRoom    *)
(* when no strategy hits                                                    *)
Has(k) == k \in Keys /\ gameRooms[k] # NoRoom
(* for (const [key, value] of gameRooms.entries()) ... break: the first key *)
(* of the registry, in insertion order, that is in S; NoRoom when none is   *)
FirstKey(S) ==
  IF \E i \in 1..Len(KeyOrder) : KeyOrder[i] \in S
  THEN KeyOrder[CHOOSE i \in 1..Len(KeyOrder) :
                   KeyOrder[i] \in S /\ \A k \in 1..(i - 1) : KeyOrder[k] \notin S]
  ELSE NoRoom
CodeUpper(code) == IF code = NoRoom THEN NoRoom ELSE ToUpperCase(code)
ByProp(codeUpper) ==
  FirstKey({k \in Keys : Has(k) /\ rooms[gameRooms[k]].matchCode = codeUpper})
ByPrefix(codeUpper) ==
  FirstKey({k \in Keys : Has(k) /\ StartsWith(ToUpperCase(k), codeUpper)})
(* the strategy that finds the Room: 1 to 4, or 0 when none does *)
Strategy(matchId, code) ==
  LET codeUpper == CodeUpper(code)
  IN IF matchId # NoRoom /\ Has(matchId) THEN 1
     ELSE IF codeUpper # NoRoom /\ Has(codeUpper) THEN 2
     ELSE IF codeUpper # NoRoom /\ ByProp(codeUpper) # NoRoom THEN 3
     ELSE IF /\ codeUpper # NoRoom /\ Len(codeUpper) >= MIN_PREFIX_LENGTH
             /\ ByPrefix(codeUpper) # NoRoom THEN 4
     ELSE 0
Resolve(matchId, code) ==
  LET codeUpper == CodeUpper(code)
      n == Strategy(matchId, code)
  IN CASE n = 1 -> gameRooms[matchId]
       [] n = 2 -> gameRooms[codeUpper]
       [] n = 3 -> gameRooms[ByProp(codeUpper)]
       [] n = 4 -> gameRooms[ByPrefix(codeUpper)]
       [] OTHER -> NoRoom
(* targetMatchId: the matchId of the request when the first strategy hits,  *)
(* the matchId of the Room found otherwise                                  *)
Target(matchId, code) ==
  IF Strategy(matchId, code) = 1 THEN matchId ELSE Resolve(matchId, code)

(* the requests of the clients: in the field matchId, an id or a join code; *)
(* in the field code, a join code in upper and in lower case, the first 8   *)
(* and the first 7 characters of an id, a whole id, a code of no match      *)
JoinInputs ==
  {[matchId |-> k, code |-> NoRoom] :
      k \in {IdOrder[1], IdOrder[2], MatchCode(IdOrder[1])}}
  \cup {[matchId |-> NoRoom, code |-> c] :
          c \in {MatchCode(IdOrder[1]),
                 Substring0(IdOrder[1], CODE_LENGTH),
                 Substring0(IdOrder[1], MIN_PREFIX_LENGTH),
                 Substring0(IdOrder[1], MIN_PREFIX_LENGTH - 1),
                 IdOrder[2], "zz"}}

JoinId == CHOOSE k \in 1..(Cardinality(joins) + 1) : \A j \in joins : j.id # k

(* join-match up to the first await (Match.findById) *)
JoinMatch(u, in) ==
  /\ running /\ UNCHANGED running
  /\ IsOpen(u)
  /\ Budget("join")
  /\ Spend("join")
  /\ LET room == Resolve(in.matchId, in.code) IN
     IF room = NoRoom
     THEN /\ reply' = "MATCH_NOT_FOUND"
          /\ UNCHANGED <<joins>>
     ELSE IF rooms[room].state # "waiting" \/ Len(rooms[room].players) >= 2
     THEN /\ reply' = "MATCH_UNAVAILABLE"
          /\ UNCHANGED <<joins>>
     ELSE /\ joins' = joins \cup {[id |-> JoinId, userId |-> u, socketId |-> SocketId(u),
                                   room |-> room,
                                   targetMatchId |-> Target(in.matchId, in.code),
                                   pc |-> "findById"]}
          /\ reply' = "ok"
  /\ UNCHANGED <<gameRooms, rooms, sockets, timers, ends, LogVars, StoreVars>>

(* join-match resumed with the Match document: the persisted-state check,  *)
(* the local changes of the document, up to await match.save()              *)
JoinFindById(j) ==
  /\ running /\ UNCHANGED running
  /\ j.pc = "findById"
  /\ LET match == IF j.targetMatchId \in MatchIds THEN matchDoc[j.targetMatchId]
                  ELSE NoDoc
     IN
     IF match = NoDoc
     THEN /\ IF j.targetMatchId \in MatchIds
             THEN reply' = "MATCH_NOT_FOUND"
             ELSE reply' \in {"MATCH_NOT_FOUND", "JOIN_MATCH_FAILED"}
          /\ joins' = joins \ {j}
     ELSE IF match.state # "waiting" \/ Len(match.players) >= 2
     THEN /\ reply' = "MATCH_UNAVAILABLE"
          /\ joins' = joins \ {j}
     ELSE /\ reply' = "ok"
          /\ joins' = (joins \ {j}) \cup {[j EXCEPT !.pc = "save"]}
  /\ UNCHANGED <<gameRooms, rooms, sockets, timers, ends, LogVars, StoreVars, used>>

(* match.save() applied ($push players, $push scores, $set state), then the *)
(* rest of join-match: the player enters the Room, match-ready, the delayed *)
(* startMatch                                                               *)
JoinSave(j) ==
  /\ running /\ UNCHANGED running
  /\ j.pc = "save"
  /\ matchDoc' = [matchDoc EXCEPT ![j.targetMatchId] =
        [@ EXCEPT !.players = Append(@, j.userId),
                  !.scores = Append(@, [userId |-> j.userId, score |-> 0]),
                  !.state = "active"]]
  /\ rooms' = [rooms EXCEPT ![j.room] =
        [@ EXCEPT !.players = Append(@, NewPlayer(j.userId, j.socketId)),
                  !.state = "active"]]
  /\ sockets' = [sockets EXCEPT ![j.userId] =
        IF SocketId(j.userId) = j.socketId THEN [@ EXCEPT !.matchId = j.targetMatchId]
        ELSE @]
  /\ timers' = timers \cup {Timer("start", j.targetMatchId, 0, NoUser, NoSocket)}
  /\ joins' = joins \ {j}
  /\ log' = Emit(log, j.targetMatchId, "match-ready", 0)
  /\ reply' = "ok"
  /\ UNCHANGED <<gameRooms, ends, userXp, matchEnded, bonusLog, xpSaves, used>>

(* join-match: a store operation (Match.findById, match.save) fails; the    *)
(* catch block answers the sender                                           *)
JoinFail(j) ==
  /\ running /\ UNCHANGED running
  /\ j \in joins
  /\ Budget("fail")
  /\ Spend("fail")
  /\ joins' = joins \ {j}
  /\ reply' = "JOIN_MATCH_FAILED"
  /\ UNCHANGED <<gameRooms, rooms, sockets, timers, ends, LogVars, StoreVars>>

-----------------------------------------------------------------------------
(* Helpers of the handlers *)
Registered(m) == gameRooms[m] # NoRoom

SetPlayer(ps, i, field, v) ==
  IF i = 0 THEN ps ELSE [ps EXCEPT ![i] = [@ EXCEPT ![field] = v]]

(* some player has the flag *)
SomePlayer(ps, field) == \E i \in 1..Len(ps) : ps[i][field]

AllPlayers(ps, field) == \A i \in 1..Len(ps) : ps[i][field]

(* room.players.find((p) => p.userId !== userId): index of the first such player, or 0 *)
OtherIdx(ps, u) ==
  IF \E i \in 1..Len(ps) : ps[i].userId # u
  THEN CHOOSE i \in 1..Len(ps) : ps[i].userId # u /\ \A k \in 1..(i-1) : ps[k].userId = u
  ELSE 0

(* room.players.find((p) => p.socketId === socket.id) *)
SocketIdx(ps, sid) ==
  IF \E i \in 1..Len(ps) : ps[i].socketId = sid
  THEN CHOOSE i \in 1..Len(ps) : ps[i].socketId = sid /\ \A k \in 1..(i-1) : ps[k].socketId # sid
  ELSE 0

PlayerIds(ps) == [i \in 1..Len(ps) |-> ps[i].userId]

(* the winner by score alone, whoever forfeited *)
WinnerByScore(r, forfeiter) ==
  IF r.scores = <<>> THEN NoUser ELSE SortDesc(r.scores)[1].userId

(* endMatch: the winner, computed before the first await *)
Winner(r, forfeiter) ==
  IF forfeiter # NoUser
  THEN LET i == OtherIdx(r.players, forfeiter) IN
       IF i = 0 THEN NoUser ELSE r.players[i].userId
  ELSE IF r.scores = <<>> THEN NoUser ELSE SortDesc(r.scores)[1].userId

EndId == CHOOSE k \in 1..(Cardinality(ends) + 1) : \A e \in ends : e.id # k

(* endMatch up to its first await (Match.findByIdAndUpdate): r is the Room as *)
(* the calling handler left it; the result is the set of suspended endMatch   *)
(* invocations after the call                                                 *)
(* (before: the Room when the calling handler began, kept for the properties *)
(* only)                                                                      *)
endMatch(m, r, forfeiter, reason) ==
  IF ~Registered(m) THEN ends
  ELSE ends \cup {[id |-> EndId, matchId |-> m, forfeiter |-> forfeiter,
                   reason |-> reason, winnerId |-> Winner(r, forfeiter),
                   update |-> r.scores, pc |-> "update",
                   entries |-> <<>>, idx |-> 0, xp |-> 0,
                   before |-> [scores |-> rooms[m].scores, state |-> rooms[m].state,
                               players |-> PlayerIds(rooms[m].players)]]}

(* displayQuestionResults: the broadcasts l, extended by question-results *)
displayQuestionResults(l, m, questionIndex, r) ==
  IF Registered(m) /\ questionIndex \in 0..(r.numberOfQuestions - 1)
  THEN Emit(l, m, "question-results", questionIndex)
  ELSE l

(* displayQuestionResults throws (correctOption.text of no option) *)
ResultsThrow(m, questionIndex, r) ==
  /\ Registered(m) /\ questionIndex \in 0..(r.numberOfQuestions - 1)
  /\ ~Matched(questionIndex)

(* deliverQuestion: the Room after the call (answered flags reset, handle of  *)
(* the deadline timer stored); the timer itself is armed by the caller         *)
CanDeliver(m, questionIndex, r) ==
  Registered(m) /\ questionIndex \in 0..(r.numberOfQuestions - 1)

deliverQuestion(m, questionIndex, r, ts) ==
  [r EXCEPT !.players = [i \in 1..Len(@) |-> [@[i] EXCEPT !.answered = FALSE]],
            !.timerInterval = ts]

-----------------------------------------------------------------------------
(* submit-answer *)
SubmitAnswer(u, m, questionIndex, selectedOptionId) ==
  /\ running /\ UNCHANGED running
  /\ IsOpen(u)
  /\ Budget("submit")
  /\ Spend("submit")
  /\ IF ~Registered(m)
     THEN /\ reply' = "MATCH_NOT_FOUND"
          /\ UNCHANGED <<rooms, timers, log>>
     ELSE IF questionIndex \notin 0..(rooms[m].numberOfQuestions - 1)
     THEN /\ reply' = "QUESTION_NOT_FOUND"
          /\ UNCHANGED <<rooms, timers, log>>
     ELSE LET isCorrect == selectedOptionId = CorrectOptionId(questionIndex)
              xpAwarded == IF isCorrect THEN XP_PER_CORRECT ELSE 0
              r == [rooms[m] EXCEPT
                      !.scores = AddScore(@, u, xpAwarded),
                      !.players = SetPlayer(@, PlayerIdx(@, u), "answered", TRUE)]
              both == AllPlayers(r.players, "answered")
          IN IF ~isCorrect /\ ~Matched(questionIndex)
             THEN \* the feedback message throws; the catch block answers
                  /\ rooms' = [rooms EXCEPT ![m].scores = AddScore(@, u, xpAwarded)]
                  /\ reply' = "ANSWER_FAILED"
                  /\ UNCHANGED <<timers, log>>
             ELSE IF both /\ ResultsThrow(m, questionIndex, r)
             THEN /\ rooms' = [rooms EXCEPT ![m] = r]
                  /\ reply' = "ANSWER_FAILED"
                  /\ UNCHANGED <<timers, log>>
             ELSE /\ rooms' = [rooms EXCEPT ![m] = r]
                  /\ log' = IF both THEN displayQuestionResults(log, m, questionIndex, r)
                            ELSE log
                  /\ timers' = IF both /\ questionIndex + 1 >= r.numberOfQuestions
                               THEN timers \cup {Timer("end", m, 0, NoUser, NoSocket)}
                               ELSE timers
                  /\ reply' = "ok"
  /\ UNCHANGED <<gameRooms, sockets, joins, ends, StoreVars, matchEnded, bonusLog, xpSaves>>

(* finish-quiz *)
FinishQuiz(u, m) ==
  /\ running /\ UNCHANGED running
  /\ IsOpen(u)
  /\ Budget("finish")
  /\ Spend("finish")
  /\ IF ~Registered(m)
     THEN /\ reply' = "MATCH_NOT_FOUND"
          /\ UNCHANGED <<rooms, ends>>
     ELSE LET r == [rooms[m] EXCEPT
                      !.players = SetPlayer(@, PlayerIdx(@, u), "finishReady", TRUE)]
          IN /\ rooms' = [rooms EXCEPT ![m] = r]
             /\ ends' = IF Len(r.players) >= 2 /\ AllPlayers(r.players, "finishReady")
                        THEN endMatch(m, r, NoUser, "Both players finished quiz")
                        ELSE ends
             /\ reply' = "ok"
  /\ UNCHANGED <<gameRooms, sockets, timers, joins, StoreVars, LogVars>>

(* next-question *)
NextQuestion(u, m) ==
  /\ running /\ UNCHANGED running
  /\ IsOpen(u)
  /\ Budget("next")
  /\ Spend("next")
  /\ IF ~Registered(m)
     THEN /\ reply' = "MATCH_NOT_FOUND"
          /\ UNCHANGED <<rooms, timers, ends, log>>
     ELSE LET r == [rooms[m] EXCEPT !.currentQuestionIndex = @ + 1]
              i == r.currentQuestionIndex
              t == Timer("deadline", m, i, NoUser, NoSocket)
          IN /\ reply' = "ok"
             /\ IF i >= r.numberOfQuestions
                THEN /\ rooms' = [rooms EXCEPT ![m] = r]
                     /\ ends' = endMatch(m, r, NoUser, "Match completed")
                     /\ UNCHANGED <<timers, log>>
                ELSE /\ rooms' = [rooms EXCEPT ![m] = deliverQuestion(m, i, r, t)]
                     /\ timers' = timers \cup {t}
                     /\ log' = Emit(log, m, "question-display", i)
                     /\ UNCHANGED ends
  /\ UNCHANGED <<gameRooms, sockets, joins, StoreVars, matchEnded, bonusLog, xpSaves>>

(* forfeit-match *)
ForfeitMatch(u, m) ==
  /\ running /\ UNCHANGED running
  /\ IsOpen(u)
  /\ Budget("forfeit")
  /\ Spend("forfeit")
  /\ reply' = "ok"
  /\ IF ~Registered(m)
     THEN UNCHANGED <<rooms, ends, bonusLog>>
     ELSE LET o == OtherIdx(rooms[m].players, u)
              opponent == rooms[m].players[o].userId
              r == IF o = 0 THEN rooms[m]
                   ELSE [rooms[m] EXCEPT !.scores = AddScore(@, opponent, FORFEIT_BONUS)]
          IN /\ rooms' = [rooms EXCEPT ![m] = r]
             /\ bonusLog' = IF o = 0 THEN bonusLog
                            ELSE [bonusLog EXCEPT ![m][opponent] = @ + 1]
             /\ ends' = endMatch(m, r, u, "Player forfeited")
  /\ UNCHANGED <<gameRooms, sockets, timers, joins, StoreVars, matchEnded, log, xpSaves>>

(* reconnect-match *)
ReconnectMatch(u, m) ==
  /\ running /\ UNCHANGED running
  /\ IsOpen(u)
  /\ Budget("reconnect")
  /\ Spend("reconnect")
  /\ IF ~Registered(m)
     THEN /\ reply' = "MATCH_NOT_FOUND"
          /\ UNCHANGED <<rooms, sockets>>
     ELSE LET i == PlayerIdx(rooms[m].players, u) IN
          /\ sockets' = [sockets EXCEPT ![u].matchId = m]
          /\ rooms' = [rooms EXCEPT ![m].players =
                SetPlayer(SetPlayer(@, i, "disconnected", FALSE), i, "socketId", SocketId(u))]
          /\ reply' = "ok"
  /\ UNCHANGED <<gameRooms, timers, joins, ends, StoreVars, LogVars>>

(* disconnect: the connection closes; the grace timer keeps the Room object, *)
(* the player's user id and (unused by the callback) the closed socket       *)
Disconnect(u) ==
  /\ running /\ UNCHANGED running
  /\ IsOpen(u)
  /\ Budget("disconnect")
  /\ Spend("disconnect")
  /\ sockets' = [sockets EXCEPT ![u].status = "closed"]
  /\ reply' = "ok"
  /\ LET m == sockets[u].matchId
         i == IF m = NoRoom \/ ~Registered(m) THEN 0
              ELSE SocketIdx(rooms[m].players, SocketId(u))
     IN IF i = 0
        THEN UNCHANGED <<rooms, timers>>
        ELSE LET t == Timer("grace", m, 0, rooms[m].players[i].userId, SocketId(u))
             IN /\ rooms' = [rooms EXCEPT ![m] =
                       [@ EXCEPT !.players = SetPlayer(@, i, "disconnected", TRUE),
                                 !.gracePeriodTimeout = t]]
                /\ timers' = timers \cup {t}
  /\ UNCHANGED <<gameRooms, joins, ends, StoreVars, LogVars>>

-----------------------------------------------------------------------------
(* Timer callbacks *)

(* the delayed startMatch of join-match (2 s) *)
StartMatchTimer(t) ==
  /\ running /\ UNCHANGED running
  /\ t \in timers /\ t.kind = "start"
  /\ IF ~Registered(t.matchId)
     THEN /\ timers' = timers \ {t}
          /\ UNCHANGED <<rooms, log>>
     ELSE /\ rooms' = [rooms EXCEPT ![t.matchId].state = "active"]
          /\ log' = Emit(log, t.matchId, "start-battle", 0)
          /\ timers' = (timers \ {t}) \cup {Timer("first", t.matchId, 0, NoUser, NoSocket)}
  /\ reply' = "ok"
  /\ UNCHANGED <<gameRooms, sockets, joins, ends, StoreVars, matchEnded, bonusLog,
                 xpSaves, used>>

(* the delayed deliverQuestion(io, matchId, 0) of startMatch (1 s) *)
FirstQuestionTimer(t) ==
  /\ running /\ UNCHANGED running
  /\ t \in timers /\ t.kind = "first"
  /\ LET m == t.matchId
         d == Timer("deadline", m, 0, NoUser, NoSocket)
     IN IF Registered(m) /\ CanDeliver(m, 0, rooms[m])
        THEN /\ rooms' = [rooms EXCEPT ![m] = deliverQuestion(m, 0, @, d)]
             /\ timers' = (timers \ {t}) \cup {d}
             /\ log' = Emit(log, m, "question-display", 0)
        ELSE /\ timers' = timers \ {t}
             /\ UNCHANGED <<rooms, log>>
  /\ reply' = "ok"
  /\ UNCHANGED <<gameRooms, sockets, joins, ends, StoreVars, matchEnded, bonusLog,
                 xpSaves, used>>

(* the deadline of question t.questionIndex: the callback reads the Room object it was *)
(* armed for, not the registry                                               *)
DeadlineThrows(t) ==
  /\ rooms[t.matchId].currentQuestionIndex = t.questionIndex
  /\ ResultsThrow(t.matchId, t.questionIndex, rooms[t.matchId])

DeadlineTimer(t) ==
  /\ running /\ UNCHANGED running
  /\ t \in timers /\ t.kind = "deadline"
  /\ ~DeadlineThrows(t)
  /\ timers' = timers \ {t}
  /\ log' = IF rooms[t.matchId].currentQuestionIndex = t.questionIndex
            THEN displayQuestionResults(
                    Emit(log, t.matchId, "question-timeout", t.questionIndex),
                    t.matchId, t.questionIndex, rooms[t.matchId])
            ELSE log
  /\ reply' = "ok"
  /\ UNCHANGED <<gameRooms, rooms, sockets, joins, ends, StoreVars,
                 matchEnded, bonusLog, xpSaves, used>>

(* the deadline of question t.questionIndex, displayQuestionResults throwing: *)
(* no try block encloses the callback, the exception reaches the handler of   *)
(* uncaughtException of server.js, which calls process.exit(1); the registry, *)
(* the timers, the suspended handlers and the connections end with the        *)
(* process                                                                    *)
DeadlineTimerExit(t) ==
  /\ running
  /\ t \in timers /\ t.kind = "deadline"
  /\ DeadlineThrows(t)
  /\ log' = Emit(log, t.matchId, "question-timeout", t.questionIndex)
  /\ running' = FALSE
  /\ gameRooms' = [k \in Keys |-> NoRoom]
  /\ timers' = {}
  /\ joins' = {}
  /\ ends' = {}
  /\ sockets' = [u \in Users |-> [sockets[u] EXCEPT !.status = "closed"]]
  /\ reply' = "ok"
  /\ UNCHANGED <<rooms, StoreVars, matchEnded, bonusLog, xpSaves, used>>

(* the grace period of a disconnect (30 s) *)
GraceTimer(t) ==
  /\ running /\ UNCHANGED running
  /\ t \in timers /\ t.kind = "grace"
  /\ timers' = timers \ {t}
  /\ LET r == rooms[t.matchId]
         stillDisconnected == \E i \in 1..Len(r.players) :
                                 r.players[i].userId = t.userId /\ r.players[i].disconnected
     IN ends' = IF stillDisconnected
                THEN endMatch(t.matchId, r, t.userId, "Did not reconnect in time")
                ELSE ends
  /\ reply' = "ok"
  /\ UNCHANGED <<gameRooms, rooms, sockets, joins, StoreVars, LogVars, used>>

(* the delayed endMatch after the last question was answered by all (2 s) *)
EndTimer(t) ==
  /\ running /\ UNCHANGED running
  /\ t \in timers /\ t.kind = "end"
  /\ timers' = timers \ {t}
  /\ ends' = IF Registered(t.matchId)
             THEN endMatch(t.matchId, rooms[t.matchId], NoUser, "All questions answered")
             ELSE ends
  /\ reply' = "ok"
  /\ UNCHANGED <<gameRooms, rooms, sockets, joins, StoreVars, LogVars, used>>

-----------------------------------------------------------------------------
(* endMatch resumed after its awaits *)

(* endMatch: the leaderboard, the score entries of the Room's players sorted *)
(* by score descending                                                      *)
Leaderboard(r) ==
  LET IsPlayer(entry) == PlayerIdx(r.players, entry.userId) # 0
  IN SortDesc(SelectSeq(r.scores, IsPlayer))

(* the end of endMatch: match-ended, clearTimeout of the two stored handles, *)
(* gameRooms.delete(matchId)                                                 *)
Finish(e) ==
  LET r == rooms[e.matchId] IN
  /\ log' = Emit(log, e.matchId, "match-ended", 0)
  /\ matchEnded' = [matchEnded EXCEPT ![e.matchId] =
        Append(@, [winnerId |-> e.winnerId, finalScores |-> r.scores,
                   leaderboard |-> Leaderboard(r),
                   forfeiter |-> e.forfeiter, reason |-> e.reason,
                   players |-> PlayerIds(r.players),
                   before |-> e.before])]
  /\ timers' = timers \ {r.gracePeriodTimeout, r.timerInterval}
  /\ gameRooms' = [gameRooms EXCEPT ![e.matchId] = NoRoom]
  /\ ends' = ends \ {e}

(* Match.findByIdAndUpdate applied; the profile loop starts over the entries *)
(* of finalScores, which is the live score table of the Room                 *)
EndMatchUpdate(e) ==
  /\ running /\ UNCHANGED running
  /\ e \in ends /\ e.pc = "update"
  /\ matchDoc' = [matchDoc EXCEPT ![e.matchId] =
        [@ EXCEPT !.state = "finished", !.scores = e.update]]
  /\ LET entries == rooms[e.matchId].scores IN
     IF entries = <<>>
     THEN Finish(e)
     ELSE /\ ends' = (ends \ {e}) \cup
                     {[e EXCEPT !.pc = "findById", !.entries = entries, !.idx = 1]}
          /\ UNCHANGED <<matchEnded, log, timers, gameRooms>>
  /\ reply' = "ok"
  /\ UNCHANGED <<rooms, sockets, joins, userXp, bonusLog, xpSaves, used>>

(* user.xp without the score of the match *)
AwardedNothing(xp, score) == xp

(* user.xp += score *)
Awarded(xp, score) == xp + score

(* User.findById answered: user.xp += score, up to await user.save() *)
EndMatchUserFind(e) ==
  /\ running /\ UNCHANGED running
  /\ e \in ends /\ e.pc = "findById"
  /\ ends' = (ends \ {e}) \cup
       {[e EXCEPT !.pc = "save",
                  !.xp = Awarded(userXp[e.entries[e.idx].userId],
                                 e.entries[e.idx].score)]}
  /\ reply' = "ok"
  /\ UNCHANGED <<gameRooms, rooms, sockets, timers, joins, StoreVars, LogVars, used>>

(* user.save() applied; the next participant, or the end of endMatch *)
EndMatchUserSave(e) ==
  /\ running /\ UNCHANGED running
  /\ e \in ends /\ e.pc = "save"
  /\ userXp' = [userXp EXCEPT ![e.entries[e.idx].userId] = e.xp]
  /\ xpSaves' = [xpSaves EXCEPT ![e.matchId][e.entries[e.idx].userId] =
                    IF e.entries[e.idx].score > 0 THEN @ + 1 ELSE @]
  /\ IF e.idx < Len(e.entries)
     THEN /\ ends' = (ends \ {e}) \cup {[e EXCEPT !.pc = "findById", !.idx = @ + 1]}
          /\ UNCHANGED <<matchEnded, log, timers, gameRooms>>
     ELSE Finish(e)
  /\ reply' = "ok"
  /\ UNCHANGED <<rooms, sockets, joins, matchDoc, bonusLog, used>>

(* a catch block that broadcasts nothing *)
CatchSilently(l, m) == l

(* the catch block of endMatch: END_MATCH_ERROR to the players of the match *)
Catch(l, m) == Emit(l, m, "END_MATCH_ERROR", 0)

(* endMatch: the store operation it is suspended on (Match.findByIdAndUpdate, *)
(* User.findById, user.save) fails; what was written before stays written,   *)
(* the Room stays registered and its timers armed                            *)
EndMatchFail(e) ==
  /\ running /\ UNCHANGED running
  /\ e \in ends
  /\ Budget("fail")
  /\ Spend("fail")
  /\ ends' = ends \ {e}
  /\ log' = Catch(log, e.matchId)
  /\ reply' = "ok"
  /\ UNCHANGED <<gameRooms, rooms, sockets, timers, joins, StoreVars, matchEnded,
                 bonusLog, xpSaves>>

-----------------------------------------------------------------------------
(* the match ids of the clients' play events: the clients play the first   *)
(* match, before its creation (an unknown match) and after                  *)
Addressed == {IdOrder[1]}

Next ==
  \/ \E u \in Users : Connect(u)
  \/ \E u \in Users : Disconnect(u)
  \/ \E m \in MatchIds, in \in CreateInputs : CreateMatch(Creator, m, in[1], in[2])
  \/ \E u \in Users, in \in JoinInputs : JoinMatch(u, in)
  \/ \E j \in joins : JoinFindById(j)
  \/ \E j \in joins : JoinSave(j)
  \/ \E u \in Users, m \in Addressed, i \in Indexes, o \in Options :
        SubmitAnswer(u, m, i, o)
  \/ \E u \in Users, m \in Addressed : FinishQuiz(u, m)
  \/ \E u \in Users, m \in Addressed : NextQuestion(u, m)
  \/ \E u \in Users, m \in Addressed : ForfeitMatch(u, m)
  \/ \E u \in Users, m \in Addressed : ReconnectMatch(u, m)
  \/ \E t \in timers : StartMatchTimer(t)
  \/ \E t \in timers : FirstQuestionTimer(t)
  \/ \E t \in timers : DeadlineTimer(t)
  \/ \E t \in timers : GraceTimer(t)
  \/ \E t \in timers : EndTimer(t)
  \/ \E e \in ends : EndMatchUpdate(e)
  \/ \E e \in ends : EndMatchUserFind(e)
  \/ \E e \in ends : EndMatchUserSave(e)
  \/ \E j \in joins : JoinFail(j)
  \/ \E e \in ends : EndMatchFail(e)
  \/ \E t \in timers : DeadlineTimerExit(t)

Spec == Init /\ [][Next]_vars

(* The behaviours in which a match is created and joined by its id and the  *)
(* clients do nothing but answer its first question, again and again        *)
RepeatInit == Start({[Quiet EXCEPT !.join = 1, !.submit = MaxRepeat]})
RepeatNext ==
  \/ \E in \in CreateInputs : CreateMatch(Creator, IdOrder[1], in[1], in[2])
  \/ \E u \in Users : JoinMatch(u, [matchId |-> IdOrder[1], code |-> NoRoom])
  \/ \E j \in joins : JoinFindById(j)
  \/ \E j \in joins : JoinSave(j)
  \/ \E u \in Users, o \in Options : SubmitAnswer(u, IdOrder[1], 0, o)
  \/ \E t \in timers : StartMatchTimer(t)
  \/ \E t \in timers : FirstQuestionTimer(t)
  \/ \E t \in timers : DeadlineTimer(t)

RepeatSpec == RepeatInit /\ [][RepeatNext]_vars

(* Armed timers fire and store calls are answered *)
TimerStep ==
  \E t \in timers : \/ StartMatchTimer(t) \/ FirstQuestionTimer(t) \/ DeadlineTimer(t)
                     \/ GraceTimer(t) \/ EndTimer(t) \/ DeadlineTimerExit(t)
StoreStep ==
  \/ \E j \in joins : JoinFindById(j) \/ JoinSave(j)
  \/ \E e \in ends : EndMatchUpdate(e) \/ EndMatchUserFind(e) \/ EndMatchUserSave(e)

(* the steps in which no store operation fails *)
FairNext ==
  \/ \E u \in Users : Connect(u)
  \/ \E u \in Users : Disconnect(u)
  \/ \E m \in MatchIds, in \in CreateInputs : CreateMatch(Creator, m, in[1], in[2])
  \/ \E u \in Users, in \in JoinInputs : JoinMatch(u, in)
  \/ \E u \in Users, m \in Addressed, i \in Indexes, o \in Options :
        SubmitAnswer(u, m, i, o)
  \/ \E u \in Users, m \in Addressed : FinishQuiz(u, m)
  \/ \E u \in Users, m \in Addressed : NextQuestion(u, m)
  \/ \E u \in Users, m \in Addressed : ForfeitMatch(u, m)
  \/ \E u \in Users, m \in Addressed : ReconnectMatch(u, m)
  \/ TimerStep
  \/ StoreStep

FairSpec == FairInit /\ [][FairNext]_vars /\ WF_vars(TimerStep) /\ WF_vars(StoreStep)

-----------------------------------------------------------------------------
(* Properties *)

Created(m) == matchDoc[m] # NoDoc
TwoPlayers(ids) == Len(ids) = 2 /\ ids[1] # ids[2]
OtherOf(ids, u) == IF ids[1] = u THEN ids[2] ELSE ids[1]
Range(seq) == {seq[i] : i \in 1..Len(seq)}
Ended(m) == Range(matchEnded[m])

RECURSIVE SumOver(_, _)
SumOver(f, S) ==
  IF S = {} THEN 0
  ELSE LET x == CHOOSE y \in S : TRUE IN f[x] + SumOver(f, S \ {x})

(* x, a match-ended entry or a suspended endMatch, began in an active Room  *)
(* of two distinct players                                                  *)
Played(x) == x.before.state = "active" /\ TwoPlayers(x.before.players)
(* every endMatch of match m, completed or suspended, began so *)
AllPlayed(m) ==
  /\ \A x \in Ended(m) : Played(x)
  /\ \A e \in ends : e.matchId = m => Played(e)
StateRank(st) == CASE st = "none" -> 0 [] st = "waiting" -> 1
                   [] st = "active" -> 2 [] st = "finished" -> 3

(* C1: once an endMatch of a played match has completed (match-ended       *)
(* broadcast), neither the match id nor the match's join code resolves a   *)
(* Room through the join-match lookup.                                     *)
C1_UnresolvableAfterFinalize ==
  \A m \in MatchIds :
     (\E x \in Ended(m) : Played(x)) =>
        /\ Resolve(m, NoRoom) = NoRoom
        /\ Resolve(NoRoom, MatchCode(m)) = NoRoom

(* C2: finalize takes effect at most once per match: when every endMatch of *)
(* the match began in an active Room of two players, there is at most one   *)
(* match-ended broadcast and each participant's profile XP is increased by  *)
(* the match score at most once.                                            *)
C2_FinalizeAtMostOnce ==
  \A m \in MatchIds :
     AllPlayed(m)
     => /\ Len(matchEnded[m]) <= 1
        /\ \A u \in Users : xpSaves[m][u] <= 1

(* C3: once a question index has been displayed, question-results of that   *)
(* index is broadcast at most once, whichever of "both answered" and the    *)
(* deadline comes first.                                                    *)
C3_ResultsOncePerQuestion ==
  \A m \in MatchIds : \A d, k1, k2 \in 1..Len(log[m]) :
     (/\ d < k1 /\ k1 < k2
      /\ log[m][d].ev = "question-display"
      /\ log[m][k1].ev = "question-results"
      /\ log[m][k1].questionIndex = log[m][d].questionIndex)
     => ~(/\ log[m][k2].ev = "question-results"
          /\ log[m][k2].questionIndex = log[m][d].questionIndex)

(* C4: neither the Room nor the persisted Match ever holds more than two    *)
(* players.                                                                 *)
C4_AtMostTwoPlayers ==
  \A m \in MatchIds :
     Created(m) => /\ Len(rooms[m].players) <= 2
                   /\ Len(matchDoc[m].players) <= 2

(* C5: the persisted Match state only moves forward along waiting, active,  *)
(* finished, and a finished Match is never written again.                   *)
C5_MatchStateMonotonic ==
  [][\A m \in MatchIds :
        /\ StateRank(matchDoc[m].state) <= StateRank(matchDoc'[m].state)
        /\ matchDoc[m].state = "finished" => matchDoc'[m] = matchDoc[m]]_vars

GraceReason == "Did not reconnect in time"
ForfeitReason == "Player forfeited"
HasPlayer(r, u) == PlayerIdx(r.players, u) # 0
PlayerOf(r, u) == r.players[PlayerIdx(r.players, u)]

(* the grace timer t is pending for a player of an active Room of two, who *)
(* is flagged disconnected and still bound to the connection that closed   *)
Armed(t) ==
  /\ t \in timers /\ t.kind = "grace"
  /\ Registered(t.matchId)
  /\ LET r == rooms[t.matchId] IN
     /\ r.state = "active"
     /\ TwoPlayers(PlayerIds(r.players))
     /\ HasPlayer(r, t.userId)
     /\ PlayerOf(r, t.userId).disconnected
     /\ PlayerOf(r, t.userId).socketId = t.socketId

(* the player of timer t was bound to another connection by reconnect-match *)
Rebound(t) ==
  /\ rooms[t.matchId] # NoDoc
  /\ HasPlayer(rooms[t.matchId], t.userId)
  /\ PlayerOf(rooms[t.matchId], t.userId).socketId # t.socketId

(* match-ended was broadcast for the expiry of u's grace period, the other *)
(* player being the winner                                                 *)
GraceEnded(m, u) ==
  \E x \in Ended(m) :
     /\ x.reason = GraceReason /\ x.forfeiter = u
     /\ TwoPlayers(x.players)
     /\ x.winnerId = OtherOf(x.players, u)

(* match-ended was broadcast by an endMatch of another cause than u's grace *)
(* period, or by one that began before the Room was active with two players *)
EndedOtherwise(m, u) ==
  \E x \in Ended(m) : ~(x.reason = GraceReason /\ x.forfeiter = u /\ Played(x))

(* every grace timer a behaviour can arm: one per closed connection *)
GraceTimers ==
  {[kind |-> "grace", matchId |-> m, questionIndex |-> 0, userId |-> u,
    socketId |-> <<u, g>>, n |-> 1] : m \in MatchIds, u \in Users, g \in 1..MaxDisconnect}

C7_ReconnectStopsGraceTimer ==
  [][\A t \in timers \ timers' :
        (/\ t.kind = "grace" /\ Rebound(t)
         /\ Registered(t.matchId)
         /\ rooms[t.matchId].state = "active"
         /\ TwoPlayers(PlayerIds(rooms[t.matchId].players))
         /\ rooms[t.matchId].players[2].userId = t.userId)
        => ~\E e \in ends' \ ends : e.reason = GraceReason /\ e.forfeiter = t.userId]_vars

(* C8: over the whole life of a match whose every endMatch began in an       *)
(* active Room of two players, the forfeiture bonus is added at most once.   *)
C8_BonusAtMostOnce ==
  \A m \in MatchIds : AllPlayed(m) => SumOver(bonusLog[m], Users) <= 1

(* C9: a match-ended caused by forfeit-match of player A of an active        *)
(* two-player match names the other player B as winner and carries B's score *)
(* before the forfeit plus 50.                                               *)
C9_ForfeitOutcome ==
  \A m \in MatchIds : \A x \in Ended(m) :
     (/\ x.reason = ForfeitReason
      /\ Played(x)
      /\ x.forfeiter \in Range(x.before.players))
     => LET B == OtherOf(x.before.players, x.forfeiter) IN
        /\ x.winnerId = B
        /\ ScoreOf(x.finalScores, B) = ScoreOf(x.before.scores, B) + FORFEIT_BONUS

(* C10: in the match-ended of a match of two players, a forfeiting player's  *)
(* opponent is the winner; without forfeiter, and when only the two players  *)
(* have scores and these differ, the winner is the player with the higher    *)
(* final score.                                                              *)
C10_WinnerSelection ==
  \A m \in MatchIds : \A x \in Ended(m) :
     (Played(x) /\ x.players = x.before.players)
     => LET A == x.players[1]
            B == x.players[2]
        IN /\ x.forfeiter \in {A, B} => x.winnerId = OtherOf(x.players, x.forfeiter)
           /\ (/\ x.forfeiter = NoUser
               /\ \A k \in 1..Len(x.finalScores) : x.finalScores[k].userId \in {A, B}
               /\ ScoreOf(x.finalScores, A) # ScoreOf(x.finalScores, B))
              => x.winnerId = IF ScoreOf(x.finalScores, A) > ScoreOf(x.finalScores, B)
                              THEN A ELSE B

(* C11: a create-match request whose numberOfQuestions is outside [3,20] or  *)
(* whose timePerQuestion is outside [15,300] is answered by a validation     *)
(* error and creates no Room and no Match; a request that creates a Room     *)
(* gives it the two values the request supplied.                             *)
C11_CreateMatchValidation ==
  [][\A m \in MatchIds, in \in CreateInputs :
        CreateMatch(Creator, m, in[1], in[2])
        => IF \/ in[1] \notin MIN_QUESTIONS..MAX_QUESTIONS
              \/ in[2] \notin MIN_TIME_LIMIT..MAX_TIME_LIMIT
           THEN /\ reply' \in {"INVALID_QUESTION_COUNT", "INVALID_TIME_LIMIT"}
                /\ UNCHANGED <<gameRooms, rooms, matchDoc>>
           ELSE /\ rooms'[m].numberOfQuestions = in[1]
                /\ rooms'[m].questionTimeLimit = in[2]]_vars

(* C12: a submit-answer for a registered match and a question index of the   *)
(* match adds 10 to the submitter's running score when the selected option   *)
(* is the question's correct option and 0 otherwise, and changes no other    *)
(* score.                                                                    *)
C12_SubmitAwardsTenOrZero ==
  [][\A u \in Users, m \in MatchIds, i \in Indexes, o \in Options :
        (/\ SubmitAnswer(u, m, i, o)
         /\ Registered(m)
         /\ i \in 0..(rooms[m].numberOfQuestions - 1))
        => /\ ScoreOf(rooms'[m].scores, u) =
                ScoreOf(rooms[m].scores, u)
                   + (IF o = CorrectOptionId(i) THEN XP_PER_CORRECT ELSE 0)
           /\ \A v \in Users \ {u} :
                 ScoreOf(rooms'[m].scores, v) = ScoreOf(rooms[m].scores, v)]_vars

(* the joining player answered wrongly and has 0, the creator answered       *)
(* correctly and has 10                                                      *)
C12_Witness ==
  \E m \in MatchIds :
     /\ rooms[m] # NoDoc
     /\ TwoPlayers(PlayerIds(rooms[m].players))
     /\ SumOver(bonusLog[m], Users) = 0
     /\ HasScore(rooms[m].scores, rooms[m].players[2].userId)
     /\ ScoreOf(rooms[m].scores, rooms[m].players[2].userId) = 0
     /\ ScoreOf(rooms[m].scores, rooms[m].players[1].userId) = XP_PER_CORRECT

(* the broadcast ev occurs in l before position k *)
Before(l, k, ev) == \E j \in 1..(k - 1) : l[j].ev = ev

(* C13: after match-ready, a question-display is broadcast only after        *)
(* start-battle, and the first question-display is that of question 0.       *)
C13_StartOrder ==
  \A m \in MatchIds : \A k \in 1..Len(log[m]) :
     (log[m][k].ev = "question-display" /\ Before(log[m], k, "match-ready"))
     => /\ Before(log[m], k, "start-battle")
        /\ ~Before(log[m], k, "question-display") => log[m][k].questionIndex = 0

(* the callback of timer t runs *)
Fires(t) ==
  \/ StartMatchTimer(t) \/ FirstQuestionTimer(t) \/ DeadlineTimer(t)
  \/ GraceTimer(t) \/ EndTimer(t)

(* C14: once match-ended was broadcast for a played match and its Room was   *)
(* removed from the registry, a timer armed for that match that fires        *)
(* broadcasts nothing to the match, writes nothing to the store, starts no   *)
(* endMatch and changes no Room.                                             *)
C14_NoTimerAfterFinalize ==
  [][\A t \in timers :
        (/\ Fires(t)
         /\ ~Registered(t.matchId)
         /\ \E x \in Ended(t.matchId) : Played(x))
        => UNCHANGED <<log, matchEnded, matchDoc, userXp, ends, rooms>>]_vars

FinishReason == "Both players finished quiz"

(* C15: a finish-quiz for a registered Room of one player or of two distinct *)
(* players sets the finishReady flag of the named player and changes no      *)
(* other player; it starts one endMatch, without forfeiter, exactly when the *)
(* Room then has two players who are both finishReady, and none otherwise.   *)
C15_FinishQuiz ==
  [][\A u \in Users, m \in MatchIds :
        (/\ FinishQuiz(u, m) /\ Registered(m)
         /\ Len(rooms[m].players) = 1 \/ TwoPlayers(PlayerIds(rooms[m].players)))
        => LET ps == rooms[m].players
               qs == rooms'[m].players
               bothReady == Len(qs) = 2 /\ qs[1].finishReady /\ qs[2].finishReady
           IN /\ Len(qs) = Len(ps)
              /\ \A k \in 1..Len(ps) :
                    qs[k] = IF ps[k].userId = u
                            THEN [ps[k] EXCEPT !.finishReady = TRUE] ELSE ps[k]
              /\ ends \subseteq ends'
              /\ IF bothReady
                 THEN \E e \in ends' \ ends :
                         /\ ends' = ends \cup {e}
                         /\ e.reason = FinishReason /\ e.forfeiter = NoUser
                 ELSE ends' = ends
              /\ UNCHANGED <<log, matchEnded, matchDoc, userXp>>]_vars

(* two players of an active Room both sent finish-quiz and the match ended   *)
(* for that reason, at a current question index before the last              *)
C15_Witness ==
  \E m \in MatchIds : \E x \in Ended(m) :
     /\ x.reason = FinishReason /\ Played(x)
     /\ rooms[m].currentQuestionIndex < rooms[m].numberOfQuestions - 1
     /\ \A k \in 1..Len(rooms[m].players) : rooms[m].players[k].finishReady

(* C16: no match-ended is broadcast, and no Room removed, by an endMatch     *)
(* that began in a waiting Room of a single player.                          *)
C16_WaitingNeverFinalized ==
  \A m \in MatchIds : \A x \in Ended(m) :
     ~(x.before.state = "waiting" /\ Len(x.before.players) = 1)

(* the user ids of the entries of a score table or leaderboard *)
EntryIds(sc) == [k \in 1..Len(sc) |-> sc[k].userId]

(* C17: the match-ended of a match of two players carries final scores and a *)
(* leaderboard with exactly one entry for each of the two players, the       *)
(* leaderboard in descending order of score.                                 *)
C17_ScoresOfBothPlayers ==
  \A m \in MatchIds : \A x \in Ended(m) :
     (Played(x) /\ x.players = x.before.players)
     => /\ Len(x.finalScores) = 2
        /\ Range(EntryIds(x.finalScores)) = Range(x.players)
        /\ Len(x.leaderboard) = 2
        /\ Range(EntryIds(x.leaderboard)) = Range(x.players)
        /\ x.leaderboard[1].score >= x.leaderboard[2].score

(* C18: a match-ended caused by the expiry of the grace period of the        *)
(* joining player of an active two-player match names the other player as    *)
(* winner and carries the other player's score at the expiry plus the bonus  *)
(* of 50.                                                                    *)
C18_GraceForfeitBonus ==
  \A m \in MatchIds : \A x \in Ended(m) :
     (/\ x.reason = GraceReason
      /\ Played(x)
      /\ x.forfeiter = x.before.players[2])
     => LET B == OtherOf(x.before.players, x.forfeiter) IN
        /\ x.winnerId = B
        /\ ScoreOf(x.finalScores, B) = ScoreOf(x.before.scores, B) + FORFEIT_BONUS

(* the broadcasts of a match that started and displayed its first question *)
Opening ==
  << [ev |-> "match-ready", questionIndex |-> 0],
     [ev |-> "start-battle", questionIndex |-> 0],
     [ev |-> "question-display", questionIndex |-> 0] >>

(* C19: when the deadline timer of question i fires in a registered active   *)
(* Room of two players whose current question is i, nothing but the opening  *)
(* of the match having been broadcast, the current index becomes i + 1 and   *)
(* question i + 1 is displayed, or, i being the last question, an endMatch   *)
(* is started.                                                               *)
C19_DeadlineAdvances ==
  [][\A t \in timers :
        (/\ DeadlineTimer(t)
         /\ Registered(t.matchId)
         /\ log[t.matchId] = Opening
         /\ rooms[t.matchId].state = "active"
         /\ TwoPlayers(PlayerIds(rooms[t.matchId].players))
         /\ rooms[t.matchId].currentQuestionIndex = t.questionIndex)
        => LET m == t.matchId
               i == t.questionIndex
           IN IF i + 1 >= rooms[m].numberOfQuestions
              THEN ends' # ends
              ELSE /\ rooms'[m].currentQuestionIndex = i + 1
                   /\ Len(log'[m]) > Len(log[m])
                   /\ log'[m][Len(log'[m])] =
                         [ev |-> "question-display", questionIndex |-> i + 1]]_vars

(* the identifier of the join-match input in is the id of match m, its join *)
(* code or, ignoring case, the beginning of its id                          *)
Identifies(in, m) ==
  \/ in.matchId \in {m, MatchCode(m)}
  \/ in.code # NoRoom /\ StartsWith(ToUpperCase(m), ToUpperCase(in.code))

(* C20: a join-match whose identifier is that of no match with a registered  *)
(* Room, every match that ended having been played by two players, is        *)
(* answered by MATCH_NOT_FOUND and changes neither the registry, nor a Room, *)
(* nor a persisted Match, nor starts a join.                                 *)
C20_UnknownMatchNotFound ==
  [][\A u \in Users, in \in JoinInputs :
        (/\ JoinMatch(u, in)
         /\ \A m \in MatchIds : AllPlayed(m) /\ (Registered(m) => ~Identifies(in, m)))
        => /\ reply' = "MATCH_NOT_FOUND"
           /\ UNCHANGED <<gameRooms, rooms, matchDoc, joins>>]_vars

(* the Rooms of the registry that satisfy P *)
RoomsWith(P(_)) == {gameRooms[k] : k \in {x \in Keys : Has(x) /\ P(gameRooms[x])}}

(* C21: join-match resolves its identifier by the first strategy that hits:  *)
(* the match id as an exact registry key; the upper-cased code as an exact   *)
(* registry key; a Room whose stored join code equals the code ignoring      *)
(* case; a Room whose match id starts with the code (ignoring case, the code *)
(* having at least 8 characters). When no strategy hits the answer is        *)
(* MATCH_NOT_FOUND; when the Room found is waiting with one player, the join *)
(* continues with Match.findById of that Room's match id.                    *)
C21_JoinLookupOrder ==
  [][\A u \in Users, in \in JoinInputs :
        JoinMatch(u, in)
        => LET codeUpper == CodeUpper(in.code)
               given == in.code # NoRoom
               SameCode(r) == ToUpperCase(rooms[r].matchCode) = codeUpper
               IdStarts(r) == StartsWith(ToUpperCase(rooms[r].matchId), codeUpper)
               found == IF in.matchId # NoRoom /\ Has(in.matchId)
                          THEN {gameRooms[in.matchId]}
                        ELSE IF given /\ Has(codeUpper) THEN {gameRooms[codeUpper]}
                        ELSE IF given /\ RoomsWith(SameCode) # {} THEN RoomsWith(SameCode)
                        ELSE IF given /\ Len(codeUpper) >= MIN_PREFIX_LENGTH
                          THEN RoomsWith(IdStarts)
                        ELSE {}
           IN IF found = {}
              THEN reply' = "MATCH_NOT_FOUND" /\ joins' = joins
              ELSE \E r \in found :
                      IF rooms[r].state # "waiting" \/ Len(rooms[r].players) >= 2
                      THEN reply' = "MATCH_UNAVAILABLE" /\ joins' = joins
                      ELSE \E j \in joins' \ joins :
                              /\ j.pc = "findById" /\ j.room = r
                              /\ j.targetMatchId = rooms[r].matchId]_vars

(* C29: for any two Rooms A and B registered at the same time, the lookup of *)
(* join-match with A's join code resolves A.                                 *)
C29_JoinCodesDoNotClash ==
  \A a, b \in MatchIds :
     (a # b /\ Registered(a) /\ Registered(b))
     => Resolve(NoRoom, rooms[a].matchCode) = a

(* the broadcast ev is in the log of match m *)
Logged(m, ev) == \E k \in 1..Len(log[m]) : log[m][k].ev = ev

(* e is the first endMatch of its match, of two score entries of distinct   *)
(* users, and no other endMatch is under way                                *)
FirstAttempt(e) ==
  /\ ends = {e}
  /\ matchEnded[e.matchId] = <<>>
  /\ ~Logged(e.matchId, "END_MATCH_ERROR")
  /\ Len(e.entries) = 2
  /\ e.entries[1].userId # e.entries[2].userId

(* C22: the profiles are updated one participant after the other and not    *)
(* rolled back: when a store operation for the second participant fails in  *)
(* the first endMatch of a match, the first participant's profile keeps the *)
(* XP it had (0) plus the match score and the second's XP is unchanged (0). *)
C22_ProfilesNotRolledBack ==
  [][\A e \in ends :
        (/\ EndMatchFail(e)
         /\ e.pc \in {"findById", "save"} /\ e.idx = 2
         /\ FirstAttempt(e))
        => /\ userXp'[e.entries[1].userId] = e.entries[1].score
           /\ userXp'[e.entries[2].userId] = 0]_vars

(* the endMatch of a match of two players failed after the save of the      *)
(* first participant, who had scored 10: 10 XP are persisted, the second    *)
(* participant has none                                                     *)
C22_Witness ==
  \E m \in MatchIds :
     /\ Logged(m, "END_MATCH_ERROR")
     /\ ends = {} /\ matchEnded[m] = <<>>
     /\ rooms[m] # NoDoc
     /\ TwoPlayers(PlayerIds(rooms[m].players))
     /\ userXp[rooms[m].players[1].userId] = XP_PER_CORRECT
     /\ xpSaves[m][rooms[m].players[1].userId] = 1
     /\ userXp[rooms[m].players[2].userId] = 0

(* C23: when a store operation fails during an endMatch, END_MATCH_ERROR is *)
(* broadcast to the players of the match, and that endMatch broadcasts no   *)
(* match-ended: it is over without one.                                     *)
C23_FailedFinalizeBroadcastsError ==
  [][\A e \in ends :
        EndMatchFail(e)
        => /\ log'[e.matchId] =
                 Append(log[e.matchId], [ev |-> "END_MATCH_ERROR", questionIndex |-> 0])
           /\ matchEnded' = matchEnded
           /\ e \notin ends']_vars

(* the endMatch of a forfeit in an active Room of two players failed at its *)
(* first store operation: the error was broadcast, no match-ended, the      *)
(* persisted Match is still active                                          *)
C23_Witness ==
  \E m \in MatchIds :
     /\ Logged(m, "END_MATCH_ERROR")
     /\ ~Logged(m, "match-ended")
     /\ ends = {}
     /\ rooms[m] # NoDoc
     /\ TwoPlayers(PlayerIds(rooms[m].players))
     /\ SumOver(bonusLog[m], Users) = 1
     /\ matchDoc[m].state = "active"

(* C24: no event handler and no timer callback terminates the server        *)
(* process: an exception raised while a client event or a timer firing is   *)
(* processed is contained.                                                  *)
C24_ExceptionsContained == running

(* C25: in an active Room of two players to which no forfeiture bonus was   *)
(* added, each player's running score is at most 10 times the number of     *)
(* questions of the match.                                                  *)
C25_ScoreAtMostTenPerQuestion ==
  \A m \in MatchIds :
     (/\ rooms[m] # NoDoc /\ rooms[m].state = "active"
      /\ TwoPlayers(PlayerIds(rooms[m].players))
      /\ SumOver(bonusLog[m], Users) = 0)
     => \A k \in 1..Len(rooms[m].players) :
           ScoreOf(rooms[m].scores, rooms[m].players[k].userId)
              <= XP_PER_CORRECT * rooms[m].numberOfQuestions

(* C26: in an active Room of two players, the keys of the score table are   *)
(* user ids of the Room's players, and the endMatch of the match has added  *)
(* XP to no profile but those of the Room's players.                        *)
C26_OnlyPlayersGain ==
  \A m \in MatchIds :
     (/\ rooms[m] # NoDoc /\ rooms[m].state = "active"
      /\ TwoPlayers(PlayerIds(rooms[m].players)))
     => \A u \in Users :
           (HasScore(rooms[m].scores, u) \/ xpSaves[m][u] > 0)
           => u \in Range(PlayerIds(rooms[m].players))

(* the broadcast ev of question i is at position k of the log l *)
IsAt(l, k, ev, i) == l[k] = [ev |-> ev, questionIndex |-> i]

(* C27: in a match that started and displayed question 0 first, question    *)
(* i + 1 is displayed only after question i was displayed and then its      *)
(* results were broadcast, and a match-ended for the reason that the         *)
(* questions ran out comes only after every question of the match was       *)
(* displayed.                                                               *)
C27_ConsecutiveQuestions ==
  \A m \in MatchIds :
     (Len(log[m]) >= Len(Opening) /\ SubSeq(log[m], 1, Len(Opening)) = Opening)
     => /\ \A k \in 1..Len(log[m]) :
              (log[m][k].ev = "question-display" /\ log[m][k].questionIndex > 0)
              => \E d, r \in 1..(k - 1) :
                    /\ d < r
                    /\ IsAt(log[m], d, "question-display", log[m][k].questionIndex - 1)
                    /\ IsAt(log[m], r, "question-results", log[m][k].questionIndex - 1)
        /\ \A x \in Ended(m) :
              x.reason = "Match completed"
              => \A i \in 0..(rooms[m].numberOfQuestions - 1) :
                    \E d \in 1..Len(log[m]) : IsAt(log[m], d, "question-display", i)

(* C28: when the grace timer armed by a first disconnect fires after the     *)
(* player of an active Room of two reconnected and disconnected again, the   *)
(* timer of the second disconnect still pending, no endMatch is started:     *)
(* the match is not finalized before the grace period of the second          *)
(* disconnect is over.                                                       *)
C28_GracePeriodRestarts ==
  [][\A t \in timers :
        (/\ GraceTimer(t)
         /\ Rebound(t)
         /\ Registered(t.matchId)
         /\ rooms[t.matchId].state = "active"
         /\ TwoPlayers(PlayerIds(rooms[t.matchId].players))
         /\ PlayerOf(rooms[t.matchId], t.userId).disconnected
         /\ \E t2 \in timers :
               /\ t2.kind = "grace" /\ t2.matchId = t.matchId /\ t2.userId = t.userId
               /\ t2.socketId = PlayerOf(rooms[t.matchId], t.userId).socketId)
        => ends' = ends]_vars

(* C30: a submit-answer to an active Room of two players broadcasts         *)
(* question-results only of the Room's current question index, and arms the *)
(* timer of the end of the match only when that index is the last question; *)
(* with a questionIndex that is not the current index it does neither.      *)
C30_RoundFollowsCurrentQuestion ==
  [][\A u \in Users, m \in MatchIds, i \in Indexes, o \in Options :
        (/\ SubmitAnswer(u, m, i, o)
         /\ Registered(m)
         /\ rooms[m].state = "active"
         /\ TwoPlayers(PlayerIds(rooms[m].players)))
        => LET current == rooms[m].currentQuestionIndex IN
           /\ log'[m] # log[m]
              => /\ i = current
                 /\ log'[m] = Append(log[m], [ev |-> "question-results",
                                               questionIndex |-> current])
           /\ timers' # timers
              => /\ i = current
                 /\ current + 1 = rooms[m].numberOfQuestions]_vars

====
